---------------------------- MODULE Spec2Model ----------------------------
(***************************************************************************)
(* A model of crates/arena/src/arena.rs: the bump-allocating Arena, its    *)
(* Header, its Storage union, and the operations new, with_capacity,       *)
(* fill_borrowed, try_alloc_layout, alloc_layout, get_unchecked, to_file,  *)
(* from_file and the arena's destruction.                                  *)
(*                                                                         *)
(* One arena is followed through its life.  Addresses are natural numbers  *)
(* of AddrBits bits (usize); the offset kept in a reference is OffsetBits  *)
(* bits wide (u32).  Both widths are scaled down so that wrap-around and   *)
(* truncation happen inside the explored state space.                      *)
(*                                                                         *)
(* How the source is read:                                                 *)
(*  - Storage is an untagged union; owns_allocation is its discriminant.   *)
(*    with_capacity builds Storage::Owned, which is the arena whose        *)
(*    owns_allocation is set; try_alloc_layout takes its Owned arm when    *)
(*    the flag is set and its Borrowed arm otherwise.                      *)
(*  - The Header carries capacity and len (lines 34-43) and the cursor     *)
(*    next that try_alloc_layout reads and writes (lines 430-436); a       *)
(*    region starts with next = content + capacity (lines 244, 380).       *)
(*  - todo!() panics: the Owned arm of try_alloc_layout ends the process.  *)
(*  - drop(allocation) hands the region back to the provider; the drop     *)
(*    glue of Arena itself runs no destructor, since Storage is a union    *)
(*    and Arena has no Drop impl.                                          *)
(*  - to_file writes content(), the first header().len() bytes from the    *)
(*    content base.  from_file is followed call by call (read_into,        *)
(*    size_on_disk, alloc_virtual), since the file may change on disk in   *)
(*    between; the bytes_read bound inside its loop is a new binding, so   *)
(*    the one checked and returned is that of the first read.  The host    *)
(*    is a 64-bit one (usize = u64); read_into reads from the start of     *)
(*    the file as many bytes as the buffer holds.                          *)
(*  - Spec follows the arena of new() with the cursor at its content, a   *)
(*    region of capacity 0.  new() leaves content pointing at the storage  *)
(*    field of its own local and header() reads the slot before content,   *)
(*    so the cursor such an arena yields is not defined by the code:       *)
(*    SpecNew follows try_alloc_layout with any cursor read.               *)
(*  - alloc_layout is followed in SpecAlloc.  SpecIds follows several      *)
(*    arenas of one build and the id check of get_unchecked; no            *)
(*    constructor assigns an id (the NEXT_ID line is commented out), so    *)
(*    an arena's id is any value.                                          *)
(***************************************************************************)
EXTENDS Integers, Naturals, Sequences, FiniteSets, TLC

\* ------------------------------------------------------------------ bounds
AddrBits   == 6    \* width of usize in the model
OffsetBits == 4    \* width of the u32 offset of an ArenaRef in the model
MaxCap     == 24   \* largest capacity a region is given
MaxBase    == 16   \* largest address at which content starts
MaxSize    == 60   \* largest layout.size() requested
MaxAlignLog == 4   \* largest layout.align() requested is 2^MaxAlignLog
MaxCalls   == 2    \* try_alloc_layout calls followed per content region
MaxWrites  == 1    \* to_file calls followed
MemLimit   == 56   \* bytes the provider can hand to from_file
MaxChanges == 1    \* changes of the file on disk during from_file
MaxId == 2         \* an id is one of 0..MaxId

\* ------------------------------------------------------- program constants
HeaderAlign == 8   \* align_of::<Header>(): two u64 fields
HeaderSize  == 16  \* size_of::<Header>(): two u64 fields

\* -------------------------------------------------------------- input sets
Caps      == {c \in 0..MaxCap : c % 8 = 0 \/ c = 3}
Bases     == {b \in HeaderAlign..MaxBase : b % HeaderAlign = 0}
Sizes     == {0, 1, 8, 16, MaxSize}
Aligns    == {2^k : k \in {0, 2, MaxAlignLog}}

\* u32::MAX and usize::MAX (= u64::MAX: a 64-bit host) in the model
U32Max    == 2^OffsetBits - 1
UsizeMax  == 2^AddrBits - 1

\* the files that can be on disk: byte i of file (n, v) is (i + v) % 2
FileLens    == {0, 1, 3, U32Max, U32Max + 2}
Files       == {[i \in 1..n |-> (i + v) % 2] : n \in FileLens, v \in 0..1}
ScratchLens == {0, 2, U32Max + 3}

\* the arenas of the id check, and the values an id can hold
ArenaNames == {"a1", "a2", "a3"}
Ids        == 0..MaxId
\* what a read of the Header slot before an inline content can yield
StaleReads == {0, HeaderAlign, MaxBase + HeaderSize, UsizeMax}

VARIABLES
    pc,               \* "start" | "live" | "dropped" | "aborted"
    abort,            \* why the process ended: "none", "oom", "todo",
                      \* "internal_error"
    owns_allocation,  \* Arena.owns_allocation
    storage,          \* the field of the Storage union last written
    content,          \* what Arena.content points to
    content_ptr,      \* the address offsets are relative to
    hdr,              \* the Header of the content: capacity, len, next
    reserved,         \* regions currently held from the Virtual Memory Provider
    releases,         \* how many times each region was handed to release
    refs,             \* the references issued for the current content
    ncalls,           \* try_alloc_layout calls made on the current content
    last,             \* the last operation: its inputs, pre-state and result
    mem,              \* the content bytes; an allocation's bytes carry the
                      \* number of the call that handed them out
    file,             \* the bytes of the file on disk
    nwrites,          \* write calls made on the file
    ff,               \* the from_file call in progress: locals and position
    dbg               \* the arenas of a debug build: ids and the last get

vars == <<pc, abort, owns_allocation, storage, content, content_ptr, hdr,
          reserved, releases, refs, ncalls, last, mem, file, nwrites, ff,
          dbg>>

fvars == <<file, nwrites, ff, dbg>>

\* the variables of the one arena followed by Spec and SpecFile
avars == <<pc, abort, owns_allocation, storage, content, content_ptr, hdr,
           reserved, releases, refs, ncalls, last, mem, file, nwrites, ff>>

Regions == {"allocation", "caller"}

\* ------------------------------------------------------------ arithmetic
Pow2(n) == 2^n

\* mutant: wrapping subtraction on AddrBits-bit words
SaturatingSub_Wrapping(a, b) == (a - b) % Pow2(AddrBits)

\* usize::saturating_sub
SaturatingSub(a, b) == IF b > a THEN 0 ELSE a - b

\* a & b on AddrBits-bit words
RECURSIVE BitAndN(_, _, _)
BitAndN(a, b, n) ==
    IF n = 0 THEN 0
    ELSE (a % 2) * (b % 2) + 2 * BitAndN(a \div 2, b \div 2, n - 1)

BitAnd(a, b) == BitAndN(a, b, AddrBits)

\* !a on AddrBits-bit words
BitNot(a) == (Pow2(AddrBits) - 1) - a

\* mutant: the boundary is not rounded
RoundDown_None(new_ptr, align) == new_ptr

\* new_ptr & !(align - 1)
RoundDown(new_ptr, align) == BitAnd(new_ptr, BitNot(align - 1))

\* (new_ptr - content_ptr) as u32
AsU32(x) == x % Pow2(OffsetBits)

\* mutant: the boundary is compared with the address of the header
DoesNotFit_HeaderStart(new_ptr, cptr) == new_ptr < cptr - HeaderSize

\* new_ptr < content_ptr
DoesNotFit(new_ptr, cptr) == new_ptr < cptr

\* ------------------------------------------------------ try_alloc_layout
\* mutant: the cursor is stored before the capacity check
TryAllocLayout_StoreFirst(cptr, ptr, owns, size, align) ==
    LET new_ptr == RoundDown(SaturatingSub(ptr, size), align)
    IN  IF DoesNotFit(new_ptr, cptr)
        THEN IF owns
             THEN [result |-> "todo", next |-> new_ptr, offset |-> 0]
             ELSE [result |-> "MaxCapacityExceeded", next |-> new_ptr,
                   offset |-> 0]
        ELSE [result |-> "Ok", next |-> new_ptr,
              offset |-> AsU32(new_ptr - cptr)]

\* The outcome of try_alloc_layout as a function of what it reads.
\* "todo" is the panic of todo!() in the Owned arm.
TryAllocLayout(cptr, ptr, owns, size, align) ==
    LET new_ptr == RoundDown(SaturatingSub(ptr, size), align)
    IN  IF DoesNotFit(new_ptr, cptr)
        THEN IF owns
             THEN [result |-> "todo", next |-> ptr, offset |-> 0]
             ELSE [result |-> "MaxCapacityExceeded", next |-> ptr, offset |-> 0]
        ELSE [result |-> "Ok", next |-> new_ptr,
              offset |-> AsU32(new_ptr - cptr)]

NoLast == [op |-> "none", result |-> "none", size |-> 0, align |-> 1,
           offset |-> 0, os_ok |-> TRUE, steps |-> <<>>, arg_ptr |-> 0,
           granted |-> 0, pre_storage |-> "none",
           pre_owns |-> FALSE, pre_content |-> "none", pre_ptr |-> 0,
           pre_hdr |-> [capacity |-> 0, len |-> 0, next |-> 0]]

Pre == [pre_owns |-> owns_allocation, pre_content |-> content,
        pre_ptr |-> content_ptr, pre_hdr |-> hdr, pre_storage |-> storage]

Zeros(n) == [i \in 1..n |-> 0]

\* the locals of from_file before the call
FFIdle == [pc |-> "idle", scratch_len |-> 0, bytes_read |-> 0,
           inner_read |-> 0, bytes_needed |-> 0, alloc_size |-> 0,
           cap_bytes |-> 0, ptr |-> "none", buf |-> <<>>, held |-> 0,
           mem_left |-> MemLimit, ret |-> "none", err |-> "none",
           arena_size |-> 0, nreads |-> 0, nsizes |-> 0, nallocs |-> 0,
           changes |-> 0, io_failed |-> FALSE, abort |-> "none",
           reported |-> 0]

\* no arena constructed, no reference issued, no get made
DbgIdle(debug) ==
    [debug |-> debug, id |-> [a \in ArenaNames |-> -1], owner |-> "none",
     resolver |-> "none", got |-> "none"]

\* ------------------------------------------------------------------ Init
Init ==
    /\ dbg = DbgIdle(TRUE)
    /\ pc = "start"
    /\ abort = "none"
    /\ owns_allocation = FALSE
    /\ storage = "none"
    /\ content = "none"
    /\ content_ptr = 0
    /\ hdr = [capacity |-> 0, len |-> 0, next |-> 0]
    /\ reserved = {}
    /\ releases = [r \in Regions |-> 0]
    /\ refs = {}
    /\ ncalls = 0
    /\ last = NoLast
    /\ mem = <<>>
    /\ file = <<>>
    /\ nwrites = 0
    /\ ff = FFIdle

\* ------------------------------------------------------------ Arena::new
\* mutant: the inline header claims the bytes of the storage field
NewHeader_InlineBytes(p) == [capacity |-> HeaderSize, len |-> 0, next |-> p]

\* Storage { uninitialized: Header { capacity: 0, len: 0 } }
NewHeader(p) == [capacity |-> 0, len |-> 0, next |-> p]

New ==
    /\ pc = "start"
    /\ \E p \in Bases :
        /\ content_ptr' = p
        /\ hdr' = NewHeader(p)
    /\ pc' = "live"
    /\ owns_allocation' = FALSE
    /\ storage' = "uninitialized"
    /\ content' = "self.storage"
    /\ last' = [NoLast EXCEPT !.op = "new", !.result = "Ok"]
    /\ mem' = <<>>
    /\ UNCHANGED <<abort, reserved, releases, refs, ncalls>>
    /\ UNCHANGED fvars

\* -------------------------------------------------- Arena::with_capacity
\* mutant: the two header fields are written the other way round
WithCapacityHeader_Swapped(granted, p) ==
    [capacity |-> 0, len |-> granted, next |-> p + granted]

WithCapacityHeader(granted, p) ==
    [capacity |-> granted, len |-> 0, next |-> p + granted]

WithCapacity ==
    /\ pc = "start"
    /\ \E capacity \in Caps, os_ok \in BOOLEAN :
        IF ~os_ok
        THEN /\ pc' = "aborted"
             /\ abort' = "oom"
             /\ last' = [NoLast EXCEPT !.op = "with_capacity", !.result = "oom",
                                       !.size = capacity, !.os_ok = FALSE]
             /\ UNCHANGED <<owns_allocation, storage, content, content_ptr,
                            hdr, reserved, releases, refs, ncalls, mem>>
             /\ UNCHANGED fvars
        ELSE \E granted \in Caps, p \in Bases :
             /\ granted >= capacity
             /\ pc' = "live"
             /\ owns_allocation' = TRUE
             /\ storage' = "owned"
             /\ content' = "allocation"
             /\ content_ptr' = p
             /\ hdr' = WithCapacityHeader(granted, p)
             /\ reserved' = reserved \cup {"allocation"}
             /\ last' = [NoLast EXCEPT !.op = "with_capacity", !.result = "Ok",
                                       !.size = capacity, !.granted = granted,
                                       !.arg_ptr = p]
             /\ mem' = Zeros(granted)
             /\ UNCHANGED <<abort, releases, refs, ncalls>>
             /\ UNCHANGED fvars

\* ------------------------------------------------- Arena::fill_borrowed
\* mutant: the owned allocation is forgotten, not dropped
FillBorrowedSteps_NoDrop(owns) == <<"content=content">>

\* What fill_borrowed does, in order.
FillBorrowedSteps(owns) ==
    IF owns THEN <<"storage=borrowed", "drop(allocation)", "content=content">>
    ELSE <<"content=content">>

Occurs(s, e) == \E i \in 1..Len(s) : s[i] = e

FillBorrowed ==
    /\ pc = "live"
    /\ \E p \in Bases, capacity \in Caps :
        LET steps == FillBorrowedSteps(owns_allocation)
        IN  /\ storage' = IF Occurs(steps, "storage=borrowed")
                          THEN "borrowed" ELSE storage
            /\ IF Occurs(steps, "drop(allocation)")
               THEN /\ reserved' = reserved \ {"allocation"}
                    /\ releases' = [releases EXCEPT !["allocation"] = @ + 1]
               ELSE UNCHANGED <<reserved, releases>>
            /\ owns_allocation' = FALSE
            /\ content' = "caller"
            /\ content_ptr' = p
            /\ hdr' = [capacity |-> capacity, len |-> 0, next |-> p + capacity]
            /\ mem' = Zeros(capacity)
            /\ last' = [NoLast EXCEPT !.op = "fill_borrowed", !.result = "Ok",
                            !.size = capacity, !.steps = steps, !.arg_ptr = p,
                            !.pre_owns = Pre.pre_owns,
                            !.pre_content = Pre.pre_content,
                            !.pre_ptr = Pre.pre_ptr, !.pre_hdr = Pre.pre_hdr,
                            !.pre_storage = Pre.pre_storage]
    /\ refs' = {}
    /\ ncalls' = 0
    /\ UNCHANGED <<pc, abort>>
    /\ UNCHANGED fvars

\* ---------------------------------------------- Arena::try_alloc_layout
\* mutant: set_next writes the other field of the header
SetNext_IntoCapacity(h, next) == [h EXCEPT !.capacity = next]

\* Arena::set_next
SetNext(h, next) == [h EXCEPT !.next = next]

\* the bytes at [offset, offset + size) of the content, as the holder of
\* the reference initialises them through at_byte_offset_mut
Fill(m, offset, size, v) ==
    [i \in 1..Len(m) |->
        IF offset < i /\ i <= offset + size THEN v ELSE m[i]]

TryAlloc ==
    /\ pc = "live"
    /\ ncalls < MaxCalls
    /\ \E size \in Sizes, align \in Aligns, os_ok \in BOOLEAN :
        LET out == TryAllocLayout(content_ptr, hdr.next, owns_allocation,
                                  size, align)
        IN  /\ (out.result = "todo" \/ os_ok)
            /\ hdr' = SetNext(hdr, out.next)
            /\ mem' = IF out.result = "Ok"
                      THEN Fill(mem, out.offset, size, ncalls + 1)
                      ELSE mem
            /\ refs' = IF out.result = "Ok"
                       THEN refs \cup {[offset |-> out.offset, size |-> size,
                                        align |-> align, boundary |-> out.next]}
                       ELSE refs
            /\ pc' = IF out.result = "todo" THEN "aborted" ELSE pc
            /\ abort' = IF out.result = "todo" THEN "todo" ELSE abort
            /\ last' = [NoLast EXCEPT !.op = "try_alloc_layout",
                            !.result = out.result, !.size = size,
                            !.align = align, !.offset = out.offset,
                            !.os_ok = os_ok,
                            !.pre_owns = Pre.pre_owns,
                            !.pre_content = Pre.pre_content,
                            !.pre_ptr = Pre.pre_ptr, !.pre_hdr = Pre.pre_hdr,
                            !.pre_storage = Pre.pre_storage]
    /\ ncalls' = ncalls + 1
    /\ UNCHANGED <<owns_allocation, storage, content, content_ptr,
                   reserved, releases>>
    /\ UNCHANGED fvars

\* ------------------------------------------------- the arena goes away
\* Arena has no Drop impl and Storage is a union: the drop glue of Arena
\* runs no destructor of a union field.
DropReleases(owns) == {}

Drop ==
    /\ pc = "live"
    /\ pc' = "dropped"
    /\ reserved' = reserved \ DropReleases(owns_allocation)
    /\ releases' = [r \in Regions |->
                      IF r \in DropReleases(owns_allocation)
                      THEN releases[r] + 1 ELSE releases[r]]
    /\ last' = [NoLast EXCEPT !.op = "drop", !.result = "Ok",
                    !.pre_owns = Pre.pre_owns, !.pre_content = Pre.pre_content,
                    !.pre_ptr = Pre.pre_ptr, !.pre_hdr = Pre.pre_hdr,
                            !.pre_storage = Pre.pre_storage]
    /\ UNCHANGED <<abort, owns_allocation, storage, content, content_ptr,
                   hdr, refs, ncalls, mem>>
    /\ UNCHANGED fvars

\* ------------------------------------------------------- Arena::to_file
\* Arena::content: slice::from_raw_parts(content, header().len())
ContentBytes(m, h) == SubSeq(m, 1, h.len)

\* mutant: the I/O result is unwrapped
Propagate_Unwrap(e) == [ret |-> "none", err |-> e, abort |-> "panic"]

\* the `?` of an I/O call that failed, and the Err of file.write
Propagate(e) == [ret |-> "Err", err |-> e, abort |-> "none"]

ToFile ==
    /\ pc = "live"
    /\ nwrites < MaxWrites
    /\ ff.pc = "idle"
    /\ nwrites' = nwrites + 1
    /\ \E io_ok \in BOOLEAN :
        IF io_ok
        THEN /\ file' = ContentBytes(mem, hdr)
             /\ last' = [NoLast EXCEPT !.op = "to_file", !.result = "Ok",
                            !.pre_owns = Pre.pre_owns,
                            !.pre_content = Pre.pre_content,
                            !.pre_ptr = Pre.pre_ptr, !.pre_hdr = Pre.pre_hdr,
                            !.pre_storage = Pre.pre_storage]
             /\ UNCHANGED <<pc, abort>>
        ELSE LET out == Propagate("IoError")
             IN  /\ file' = file
                 /\ last' = [NoLast EXCEPT !.op = "to_file",
                                !.result = out.ret, !.os_ok = FALSE,
                                !.pre_owns = Pre.pre_owns,
                                !.pre_content = Pre.pre_content,
                                !.pre_ptr = Pre.pre_ptr,
                                !.pre_hdr = Pre.pre_hdr,
                                !.pre_storage = Pre.pre_storage]
                 /\ pc' = IF out.abort = "none" THEN pc ELSE "aborted"
                 /\ abort' = IF out.abort = "none" THEN abort ELSE out.abort
    /\ UNCHANGED <<owns_allocation, storage, content, content_ptr, hdr,
                   reserved, releases, refs, ncalls, mem, ff, dbg>>

Next == New \/ WithCapacity \/ FillBorrowed \/ TryAlloc \/ Drop \/ ToFile

Spec == Init /\ [][Next]_vars

\* ----------------------------------------------------- Arena::from_file
Min(a, b) == IF a < b THEN a ELSE b

\* usize::saturating_add
SaturatingAdd(a, b) == Min(a + b, UsizeMax)

\* u64::saturating_mul
SaturatingMul(a, b) == Min(a * b, UsizeMax)

\* bytes_needed as usize
AsUsize(x) == x % (UsizeMax + 1)

\* ReadFile::read_into: the file's bytes from its start, as many as fit
ReadInto(f, buf_len) == SubSeq(f, 1, Min(Len(f), buf_len))

\* FileMetadata::size_on_disk
SizeOnDisk(f) == Len(f)

\* mutant: the read is compared with the size of the allocation
LoopDone_AllocSize(inner, needed) == inner <= needed + HeaderSize

\* if bytes_read as u64 <= bytes_needed { break; }
LoopDone(inner, needed) == inner <= needed

\* if bytes_read >= u32::MAX as usize { return Err(NOT_ENOUGH_MEMORY) }
TooLarge(bytes_read) == bytes_read >= U32Max

\* mutant: a read that fills the scratch region counts as complete
FirstReadFits_Inclusive(bytes_read, buf_len) == bytes_read <= buf_len

\* if bytes_read < buf.len()
FirstReadFits(bytes_read, buf_len) == bytes_read < buf_len

\* the return of from_file after an I/O call failed
FFFail(out) ==
    [ff EXCEPT !.pc = IF out.abort = "none" THEN "done" ELSE "aborted",
               !.ret = out.ret, !.err = out.err, !.abort = out.abort,
               !.io_failed = TRUE]

FFUnchanged ==
    UNCHANGED <<pc, abort, owns_allocation, storage, content, content_ptr,
                hdr, reserved, releases, refs, ncalls, last, mem, file,
                nwrites, dbg>>

\* let bytes_read = file.read_into(buf)?;  and the branch on buf.len()
FFStart ==
    /\ ff.pc = "idle"
    /\ nwrites >= 1
    /\ \E scratch_len \in ScratchLens, io_ok \in BOOLEAN :
        IF ~io_ok
        THEN ff' = [FFFail(Propagate("IoError")) EXCEPT
                        !.scratch_len = scratch_len, !.nreads = 1]
        ELSE LET got == ReadInto(file, scratch_len)
                 bytes_read == Len(got)
             IN  ff' = [ff EXCEPT
                    !.scratch_len = scratch_len,
                    !.bytes_read = bytes_read,
                    !.buf = got,
                    !.ptr = "scratch",
                    !.nreads = 1,
                    !.alloc_size = IF FirstReadFits(bytes_read, scratch_len)
                                   THEN SaturatingAdd(bytes_read, HeaderSize)
                                   ELSE @,
                    !.pc = IF FirstReadFits(bytes_read, scratch_len)
                           THEN "check" ELSE "metadata"]
    /\ FFUnchanged

\* let mut bytes_needed = file.size_on_disk()?;
FFMetadata ==
    /\ ff.pc = "metadata"
    /\ \E io_ok \in BOOLEAN :
        IF ~io_ok
        THEN ff' = [FFFail(Propagate("IoError")) EXCEPT !.nsizes = @ + 1]
        ELSE ff' = [ff EXCEPT !.bytes_needed = SizeOnDisk(file),
                              !.reported = SizeOnDisk(file),
                              !.nsizes = @ + 1, !.pc = "alloc"]
    /\ FFUnchanged

\* alloc_size = ...; Allocation::alloc_virtual(..).unwrap_or_else(|_| oom!())
FFAlloc ==
    /\ ff.pc = "alloc"
    /\ LET alloc_size == SaturatingAdd(AsUsize(ff.bytes_needed), HeaderSize)
       IN  \E os_ok \in BOOLEAN, extra \in 0..1 :
            IF ~os_ok \/ alloc_size + extra > ff.mem_left
            THEN ff' = [ff EXCEPT !.alloc_size = alloc_size,
                                  !.pc = "aborted", !.abort = "oom"]
            ELSE ff' = [ff EXCEPT !.alloc_size = alloc_size,
                                  !.cap_bytes = alloc_size + extra,
                                  !.mem_left = @ - (alloc_size + extra),
                                  !.held = @ + 1,
                                  !.nallocs = @ + 1,
                                  !.pc = "read"]
    /\ FFUnchanged

\* let bytes_read = file.read_into(..)?; ptr = buf.cast(); break or double.
\* This bytes_read is a new binding of the loop body: ff.inner_read.
FFRead ==
    /\ ff.pc = "read"
    /\ \E io_ok \in BOOLEAN :
        IF ~io_ok
        THEN ff' = [FFFail(Propagate("IoError")) EXCEPT !.nreads = @ + 1]
        ELSE LET got == ReadInto(file, ff.cap_bytes)
             IN  ff' = [ff EXCEPT
                    !.inner_read = Len(got),
                    !.buf = got,
                    !.ptr = "region",
                    !.nreads = @ + 1,
                    !.bytes_needed = IF LoopDone(Len(got), @)
                                     THEN @ ELSE SaturatingMul(@, 2),
                    !.pc = IF LoopDone(Len(got), ff.bytes_needed)
                           THEN "check" ELSE "alloc"]
    /\ FFUnchanged

\* the u32::MAX check on bytes_read and the Ok((arena, bytes_read))
FFCheck ==
    /\ ff.pc = "check"
    /\ ff' = IF TooLarge(ff.bytes_read)
             THEN [ff EXCEPT !.pc = "done", !.ret = "Err",
                             !.err = "NOT_ENOUGH_MEMORY"]
             ELSE [ff EXCEPT !.pc = "done", !.ret = "Ok",
                             !.arena_size = AsU32(ff.alloc_size)]
    /\ FFUnchanged

\* the file changes on disk while from_file runs
FileChanges ==
    /\ ff.pc \in {"metadata", "alloc", "read"}
    /\ ff.changes < MaxChanges
    /\ \E f \in Files \ {file} : file' = f
    /\ ff' = [ff EXCEPT !.changes = @ + 1]
    /\ UNCHANGED <<pc, abort, owns_allocation, storage, content, content_ptr,
                   hdr, reserved, releases, refs, ncalls, last, mem, nwrites,
                   dbg>>

\* An arena whose content() is any of the byte sequences, about to be
\* written with to_file and read back with from_file.
InitFile ==
    /\ pc = "live"
    /\ abort = "none"
    /\ owns_allocation = FALSE
    /\ storage = "borrowed"
    /\ content = "caller"
    /\ content_ptr = HeaderAlign
    /\ \E f \in Files :
        /\ mem = f
        /\ hdr = [capacity |-> Len(f), len |-> Len(f), next |-> HeaderAlign]
    /\ reserved = {}
    /\ releases = [r \in Regions |-> 0]
    /\ refs = {}
    /\ ncalls = 0
    /\ last = NoLast
    /\ file = <<>>
    /\ nwrites = 0
    /\ ff = FFIdle
    /\ dbg = DbgIdle(TRUE)

FFStep == FFStart \/ FFMetadata \/ FFAlloc \/ FFRead \/ FFCheck

NextFile == ToFile \/ FFStart \/ FFMetadata \/ FFAlloc \/ FFRead \/ FFCheck
            \/ FileChanges

SpecFile == InitFile /\ [][NextFile]_vars

\* from_file is straight-line code: once called it keeps running.
SpecFileFair == SpecFile /\ WF_vars(FFStep)

\* ------------------------------------------- Arena::alloc, alloc_layout
\* mutant: the two arms of the match are exchanged
UnwrapOrElse_Swapped(result) ==
    CASE result = "Ok" -> "return"
      [] result = "MaxCapacityExceeded" -> "oom"
      [] result = "OsAllocFailed" -> "internal_error"
      [] OTHER -> result

\* try_alloc_layout(layout).unwrap_or_else(|err| match err { .. }): how
\* alloc_layout ends for each outcome of try_alloc_layout. A panic inside
\* try_alloc_layout passes through.
UnwrapOrElse(result) ==
    CASE result = "Ok" -> "return"
      [] result = "MaxCapacityExceeded" -> "internal_error"
      [] result = "OsAllocFailed" -> "oom"
      [] OTHER -> result

AllocLayout ==
    /\ pc = "live"
    /\ ncalls < MaxCalls
    /\ \E size \in Sizes, align \in Aligns :
        LET out == TryAllocLayout(content_ptr, hdr.next, owns_allocation,
                                  size, align)
            end == UnwrapOrElse(out.result)
        IN  /\ hdr' = SetNext(hdr, out.next)
            /\ mem' = IF out.result = "Ok"
                      THEN Fill(mem, out.offset, size, ncalls + 1)
                      ELSE mem
            /\ refs' = IF out.result = "Ok"
                       THEN refs \cup {[offset |-> out.offset, size |-> size,
                                        align |-> align, boundary |-> out.next]}
                       ELSE refs
            /\ pc' = IF end = "return" THEN pc ELSE "aborted"
            /\ abort' = IF end = "return" THEN abort ELSE end
            /\ last' = [NoLast EXCEPT !.op = "alloc_layout",
                            !.result = out.result, !.size = size,
                            !.align = align, !.offset = out.offset,
                            !.pre_owns = Pre.pre_owns,
                            !.pre_content = Pre.pre_content,
                            !.pre_ptr = Pre.pre_ptr, !.pre_hdr = Pre.pre_hdr,
                            !.pre_storage = Pre.pre_storage]
    /\ ncalls' = ncalls + 1
    /\ UNCHANGED <<owns_allocation, storage, content, content_ptr,
                   reserved, releases>>
    /\ UNCHANGED fvars

NextAlloc == New \/ WithCapacity \/ FillBorrowed \/ AllocLayout

\* the arena used through alloc_layout
SpecAlloc == Init /\ [][NextAlloc]_vars

\* -------------------------------- try_alloc_layout on the arena of new()
\* new() stores in content the address of the storage field of its local
\* `answer` and returns `answer` by value; header() reads the Header-sized
\* slot before content. Neither the slot before the storage field nor the
\* place of the dead local holds a Header that new() wrote: the cursor
\* read is any of StaleReads.
TryAllocMoved ==
    /\ pc = "live"
    /\ content = "self.storage"
    /\ ncalls < MaxCalls
    /\ \E size \in Sizes, align \in Aligns, next \in StaleReads :
        LET out == TryAllocLayout(content_ptr, next, owns_allocation,
                                  size, align)
        IN  /\ hdr' = IF out.result = "Ok" THEN SetNext(hdr, out.next)
                      ELSE hdr
            /\ refs' = IF out.result = "Ok"
                       THEN refs \cup {[offset |-> out.offset, size |-> size,
                                        align |-> align, boundary |-> out.next]}
                       ELSE refs
            /\ last' = [NoLast EXCEPT !.op = "try_alloc_layout",
                            !.result = out.result, !.size = size,
                            !.align = align, !.offset = out.offset,
                            !.pre_owns = Pre.pre_owns,
                            !.pre_content = Pre.pre_content,
                            !.pre_ptr = Pre.pre_ptr,
                            !.pre_hdr = SetNext(hdr, next),
                            !.pre_storage = Pre.pre_storage]
    /\ ncalls' = ncalls + 1
    /\ UNCHANGED <<pc, abort, owns_allocation, storage, content, content_ptr,
                   reserved, releases, mem>>
    /\ UNCHANGED fvars

NextNew == New \/ TryAllocMoved

\* the arena of new(), used after new() has returned it
SpecNew == Init /\ [][NextNew]_vars

\* ------------------------------------------------ the debug-build id
\* An arena comes to exist. No constructor writes an id: the line that
\* takes one from NEXT_ID is commented out in from_ptr_to_content, so the
\* id is whatever the arena's bytes hold.
Construct ==
    \E a \in ArenaNames, id \in Ids :
        /\ dbg.id[a] = -1
        /\ dbg' = [dbg EXCEPT !.id[a] = id]
        /\ UNCHANGED avars

\* ArenaRefMut::new_in(.., self): a reference that names its arena
RefFrom ==
    \E a \in ArenaNames :
        /\ dbg.id[a] # -1
        /\ dbg' = [dbg EXCEPT !.owner = a, !.resolver = "none",
                              !.got = "none"]
        /\ UNCHANGED avars

\* #[cfg(debug_assertions)] assert_eq!(self.id, arena_ref.arena.id)
IdCheck(debug, self_id, ref_id) ==
    IF debug /\ self_id # ref_id THEN "abort" ELSE "value"

\* Arena::get_unchecked on arena b with the reference last issued
GetUnchecked ==
    \E b \in ArenaNames :
        /\ dbg.id[b] # -1
        /\ dbg.owner # "none"
        /\ dbg.got # "abort"
        /\ dbg' = [dbg EXCEPT !.resolver = b,
                       !.got = IdCheck(dbg.debug, dbg.id[b],
                                       dbg.id[dbg.owner])]
        /\ UNCHANGED avars

\* an arena no reference names goes away
DropArena ==
    \E a \in ArenaNames :
        /\ dbg.id[a] # -1
        /\ dbg.owner # a
        /\ dbg.got # "abort"
        /\ dbg' = [dbg EXCEPT !.id[a] = -1]
        /\ UNCHANGED avars

InitIds ==
    /\ \E debug \in BOOLEAN : dbg = DbgIdle(debug)
    /\ pc = "start"
    /\ abort = "none"
    /\ owns_allocation = FALSE
    /\ storage = "none"
    /\ content = "none"
    /\ content_ptr = 0
    /\ hdr = [capacity |-> 0, len |-> 0, next |-> 0]
    /\ reserved = {}
    /\ releases = [r \in Regions |-> 0]
    /\ refs = {}
    /\ ncalls = 0
    /\ last = NoLast
    /\ mem = <<>>
    /\ file = <<>>
    /\ nwrites = 0
    /\ ff = FFIdle

NextIds == Construct \/ RefFrom \/ GetUnchecked \/ DropArena

SpecIds == InitIds /\ [][NextIds]_vars

\* =================================================================
\* Properties
\* =================================================================
Attached == pc # "start"

\* the boundary a request asks for, in unbounded integer arithmetic:
\* (ptr - size) rounded down to a multiple of align
TrueBoundary(ptr, size, align) ==
    LET d == ptr - size IN d - (d % align)

LastTry == last.op = "try_alloc_layout"
PreBorrowed == ~last.pre_owns /\ last.pre_content = "caller"
PreUnfit ==
    TrueBoundary(last.pre_hdr.next, last.size, last.align) < last.pre_ptr

Index(s, e) == CHOOSE i \in 1..Len(s) : s[i] = e

C2_OffsetMultipleOfAlign ==
    (LastTry /\ last.result = "Ok") => last.offset % last.align = 0

\* C2 (amended): the new boundary address of every successful allocation
\* is a multiple of the requested alignment, and the offset is a multiple
\* of it whenever the content base is.
C2_BoundaryMultipleOfAlign ==
    (LastTry /\ last.result = "Ok") =>
        /\ hdr.next % last.align = 0
        /\ (last.pre_ptr % last.align = 0 => last.offset % last.align = 0)

C2_Witness ==
    /\ LastTry /\ last.result = "Ok" /\ last.align > HeaderAlign
    /\ last.pre_ptr % last.align # 0
    /\ hdr.next # SaturatingSub(last.pre_hdr.next, last.size)

\* C3: the byte ranges [offset, offset + size) of two distinct references
\* of non-zero size issued for one content region do not overlap.
C3_RangesDisjoint ==
    \A r1, r2 \in refs :
        (r1 # r2 /\ r1.size > 0 /\ r2.size > 0) =>
            \/ r1.offset + r1.size <= r2.offset
            \/ r2.offset + r2.size <= r1.offset

C5_FailedCallChangesNothing ==
    (LastTry /\ PreBorrowed /\ last.result = "MaxCapacityExceeded") =>
        /\ hdr = last.pre_hdr
        /\ content_ptr = last.pre_ptr
        /\ \A s \in Sizes, a \in Aligns :
              TryAllocLayout(content_ptr, hdr.next, owns_allocation, s, a)
              = TryAllocLayout(last.pre_ptr, last.pre_hdr.next,
                               last.pre_owns, s, a)

C5_Witness ==
    /\ LastTry /\ PreBorrowed /\ last.result = "MaxCapacityExceeded"
    /\ refs # {}
    /\ \E s \in Sizes \ {0}, a \in Aligns :
          TryAllocLayout(content_ptr, hdr.next, owns_allocation, s, a).result
          = "Ok"

\* C6: on an Owned arena a request that does not fit, with a provider that
\* succeeds, returns Ok and leaves a capacity of at least the request and
\* of at least the bytes used before plus the request.
C6_OwnedGrowthSucceeds ==
    (LastTry /\ last.pre_owns /\ PreUnfit /\ last.os_ok) =>
        /\ last.result = "Ok"
        /\ hdr.capacity >= last.size
        /\ hdr.capacity >= (last.pre_ptr + last.pre_hdr.capacity
                            - last.pre_hdr.next) + last.size

\* C8: on an Owned arena a request that does not fit, with a provider that
\* fails, returns Err(OsAllocFailed).
C8_OwnedGrowthFailureIsOsAllocFailed ==
    (LastTry /\ last.pre_owns /\ PreUnfit /\ ~last.os_ok) =>
        last.result = "OsAllocFailed"

\* C9: once the arena is destroyed, every region it obtained from the
\* provider has been released exactly once and none is still held, and the
\* caller's region has never been released.
C9_OwnedReleasedOnceAtDrop ==
    pc = "dropped" =>
        /\ reserved = {}
        /\ \A r \in Regions : releases[r] <= 1
        /\ releases["caller"] = 0

\* C10: fill_borrowed leaves an arena that owns no allocation and whose
\* content is the caller's region; an allocation owned before is released,
\* once, before the content is attached.
C10_FillBorrowedReleasesThenAttaches ==
    last.op = "fill_borrowed" =>
        /\ ~owns_allocation
        /\ content = "caller"
        /\ content_ptr = last.arg_ptr
        /\ hdr.capacity = last.size
        /\ "allocation" \notin reserved
        /\ Occurs(last.steps, "content=content")
        /\ last.pre_owns =>
              /\ releases["allocation"] = 1
              /\ Occurs(last.steps, "drop(allocation)")
              /\ Index(last.steps, "drop(allocation)")
                   < Index(last.steps, "content=content")
        /\ ~last.pre_owns => ~Occurs(last.steps, "drop(allocation)")

C10_Witness ==
    /\ last.op = "fill_borrowed" /\ last.pre_owns
    /\ last.pre_hdr.next < last.pre_ptr + last.pre_hdr.capacity
    /\ releases["allocation"] = 1

C13_NewIsEmpty ==
    last.op = "new" =>
        /\ storage = "uninitialized"
        /\ ~owns_allocation
        /\ content = "self.storage"
        /\ hdr.capacity = 0 /\ hdr.len = 0
        /\ reserved = {}
        /\ \A r \in Regions : releases[r] = 0

C13_Witness == last.op = "new" /\ pc = "live"

\* C14: when the provider succeeds, with_capacity(c) gives an Owned arena
\* whose capacity is the granted size, at least c, and whose len is 0.
C14_WithCapacityRecordsGrant ==
    (last.op = "with_capacity" /\ last.result = "Ok") =>
        /\ owns_allocation /\ storage = "owned" /\ content = "allocation"
        /\ "allocation" \in reserved
        /\ hdr.capacity = last.granted
        /\ hdr.capacity >= last.size
        /\ hdr.len = 0

C14_Witness ==
    /\ last.op = "with_capacity" /\ last.result = "Ok"
    /\ last.granted > last.size /\ last.size > 0

\* the content bytes occupied by the allocations made so far
UsedBytes(m, h, p) == SubSeq(m, (h.next - p) + 1, h.capacity)

\* C20: a to_file call that succeeds has made one write, of exactly the
\* content bytes occupied by the allocations made so far, without the
\* header, and has left the arena as it was.
C20_ToFileWritesUsedBytes ==
    (last.op = "to_file" /\ last.result = "Ok") =>
        /\ nwrites = 1
        /\ file = UsedBytes(mem, hdr, content_ptr)
        /\ hdr = last.pre_hdr /\ content_ptr = last.pre_ptr
        /\ owns_allocation = last.pre_owns /\ storage = last.pre_storage

\* ---- from_file / to_file
Original == ContentBytes(mem, hdr)
Wrote == last.op = "to_file" /\ last.result = "Ok"

\* C15: round trip.  When to_file and from_file meet no I/O error and the
\* file is not changed in between, from_file returns Ok with bytes_read
\* equal to the length n of the arena's content (n below u32::MAX), and
\* the first bytes_read bytes of the region equal that content.
C15_RoundTrip ==
    (ff.pc = "done" /\ Wrote /\ ~ff.io_failed /\ ff.changes = 0
        /\ Len(Original) < U32Max) =>
        /\ ff.ret = "Ok"
        /\ ff.bytes_read = Len(Original)
        /\ SubSeq(ff.buf, 1, ff.bytes_read) = Original

\* C16: the count from_file returns with Ok is the number of bytes of the
\* file held in the region of the returned arena, i.e. the count of the
\* last read.
C16_CountIsFinalRead ==
    ff.ret = "Ok" => ff.bytes_read = Len(ff.buf)

\* C17: from_file always ends, with a result or with the abort of a failed
\* allocation; when it ends with Ok, the last read did not fill the region
\* it was given and holds the whole file.
C17_EndsNotFilled ==
    ff.ret = "Ok" =>
        /\ ff.ptr = "scratch" => Len(ff.buf) < ff.scratch_len
        /\ ff.ptr = "region" => Len(ff.buf) < ff.cap_bytes
        /\ ff.buf = file

C17_Terminates ==
    /\ []C17_EndsNotFilled
    /\ (ff.pc # "idle") ~> (ff.pc \in {"done", "aborted"})

C17_Witness ==
    /\ ff.ret = "Ok" /\ ff.nallocs >= 2 /\ ff.changes = 1

\* C18: from_file returns Err(NOT_ENOUGH_MEMORY) whenever the content it
\* read is u32::MAX bytes or more.
C18_LargeContentRejected ==
    (ff.pc = "done" /\ ~ff.io_failed /\ Len(ff.buf) >= U32Max) =>
        ff.ret = "Err" /\ ff.err = "NOT_ENOUGH_MEMORY"

\* C19: an I/O error of read_into, size_on_disk or write is returned as
\* Err(IoError) and ends nothing; the process is ended only by an
\* allocation that failed.
C19_IoErrorsAreReturned ==
    /\ ff.io_failed =>
          /\ ff.pc = "done" /\ ff.ret = "Err" /\ ff.err = "IoError"
          /\ ff.abort = "none"
    /\ ff.pc = "aborted" => (ff.abort = "oom" /\ ~ff.io_failed)
    /\ (last.op = "to_file" /\ ~last.os_ok) =>
          (last.result = "Err" /\ pc = "live" /\ abort = "none")

C19_Witness ==
    /\ ff.io_failed /\ ff.nallocs >= 1 /\ ff.nreads = 2
    /\ ff.held = 1

C25_OffsetsNonIncreasing ==
    (LastTry /\ last.result = "Ok") =>
        /\ hdr.next = TrueBoundary(last.pre_hdr.next, last.size, last.align)
        /\ hdr.next <= last.pre_hdr.next
        /\ \A r \in refs : last.offset <= r.offset

\* C27: after a successful allocation the header's len is the number of
\* content bytes consumed: capacity minus the cursor's offset.
C27_LenTracksCursor ==
    (LastTry /\ last.result = "Ok") =>
        hdr.len = (content_ptr + hdr.capacity) - hdr.next

\* C26: from_file starts with one read into the scratch region. A first
\* read shorter than the region is followed by no size_on_disk call and
\* no reservation, and the arena returned is over the scratch region. A
\* first read that fills the region is followed by one size_on_disk call,
\* and the first region reserved has the reported size plus the header
\* size; every further read comes after a reservation.
C26_FirstRead == ff.pc \notin {"idle", "aborted"} /\ ~(ff.nreads = 1 /\ ff.io_failed)

C26_ScratchFirst ==
    /\ ff.pc # "idle" => ff.nreads >= 1
    /\ ff.nsizes <= 1
    /\ ff.nallocs >= 1 => ff.nsizes = 1
    /\ ff.nreads <= ff.nallocs + 1
    /\ (C26_FirstRead /\ ff.bytes_read < ff.scratch_len) =>
            /\ ff.nreads = 1 /\ ff.nsizes = 0 /\ ff.nallocs = 0
            /\ ff.ptr = "scratch"
    /\ (ff.pc = "done" /\ ff.ret = "Ok" /\ ff.bytes_read = ff.scratch_len) =>
            /\ ff.nsizes = 1 /\ ff.nallocs >= 1 /\ ff.ptr = "region"
    /\ (ff.pc = "read" /\ ff.nallocs = 1) =>
            /\ ff.alloc_size = ff.reported + HeaderSize
            /\ ff.cap_bytes >= ff.alloc_size
            /\ ff.nreads = 1

C26_Witness ==
    /\ ff.pc = "done" /\ ff.ret = "Ok"
    /\ ff.bytes_read = ff.scratch_len /\ ff.scratch_len > 0
    /\ ff.nsizes = 1 /\ ff.nreads >= 2 /\ ff.ptr = "region"

\* C30: when from_file returns, at most one region reserved by its
\* retry loop is still held.
C30_EarlierRegionsReleased ==
    ff.pc = "done" => ff.held <= 1

\* C21: in a debug build a get through an arena other than the one that
\* produced the reference aborts and a get through the producing arena
\* does not, no two live arenas carrying the same id.
C21_IdCheckSeparatesArenas ==
    /\ (dbg.debug /\ dbg.got # "none") =>
            (dbg.got = "abort" <=> dbg.resolver # dbg.owner)
    /\ \A a, b \in ArenaNames :
            (a # b /\ dbg.id[a] # -1 /\ dbg.id[b] # -1) =>
                dbg.id[a] # dbg.id[b]

\* C24: alloc_layout returns a reference exactly when try_alloc_layout
\* returned Ok and otherwise ends the process: with the internal error
\* for MaxCapacityExceeded, with out-of-memory for OsAllocFailed.
C24_AllocLayoutReturnsOrAborts ==
    (last.op = "alloc_layout") =>
        /\ last.result = "Ok" <=> pc = "live"
        /\ last.result = "Ok" =>
                \E r \in refs : /\ r.offset = last.offset
                                /\ r.size = last.size
                                /\ r.boundary = hdr.next
        /\ last.result # "Ok" => pc = "aborted" /\ abort # "none"
        /\ last.result = "MaxCapacityExceeded" => abort = "internal_error"
        /\ last.result = "OsAllocFailed" => abort = "oom"

C24_Witness ==
    /\ last.op = "alloc_layout"
    /\ last.result = "MaxCapacityExceeded"
    /\ pc = "aborted" /\ abort = "internal_error"
    /\ refs # {}

\* C29: a request of non-zero size on the arena of new() is never Ok
\* while the arena has no Owned region: it fails and the arena stays
\* Uninitialized.
C29_InlineNeverHandedOut ==
    (last.op = "try_alloc_layout" /\ last.pre_content = "self.storage"
        /\ last.size > 0) =>
        /\ last.result # "Ok"
        /\ storage = "uninitialized"
        /\ content = "self.storage"

=============================================================================
